---- MODULE Spec2Model ----
(***************************************************************************)
(* Model of backend/api/serializers.py (foodgram): the serializers that    *)
(* validate, persist and render recipes, favourites, shopping lists and    *)
(* subscriptions.  Storage tables are the model's state; every serializer  *)
(* method is an operator over the tables it touches, and every request     *)
(* (validation, write, render) is an action built from those operators.    *)
(*                                                                         *)
(* Abstractions: name, text and image of a recipe are opaque scalars that  *)
(* no modelled method inspects, so a recipe row keeps author, last_editor, *)
(* cooking_time and its tag set.  Tag and Ingredient are reference tables  *)
(* that this layer never writes.  Recipe, IngredientAmount and             *)
(* Subscription are sequences in insertion order; FavouriteList and        *)
(* ShoppingList, which hold one row per (user, recipe), are sets of rows.  *)
(***************************************************************************)
EXTENDS Integers, Sequences, FiniteSets

VARIABLES Recipe, IngredientAmount, FavouriteList, ShoppingList,
          Subscription, request, validated_data, response, procs

vars == <<Recipe, IngredientAmount, FavouriteList, ShoppingList,
          Subscription, request, validated_data, response, procs>>

storage == <<Recipe, IngredientAmount, FavouriteList, ShoppingList,
             Subscription>>

(***************************************************************************)
(* Bounds and reference data                                               *)
(***************************************************************************)
MaxRecipes == 1
MaxAuthored == 2
MaxLen == 2
MaxAmount == 2
MaxCookingTime == 1
MaxStr == 2

Users == {"u1", "u2"}
AnonymousUser == "anonymous"
Viewers == Users \cup {AnonymousUser}
Tag == {"T1", "T2"}
Ingredient == {"I1", "I2"}
None == "None"

Range(s) == {s[i] : i \in 1..Len(s)}

SeqsUpTo(S, n) == UNION {[1..k -> S] : k \in 0..n}

\* Number of positions of s holding e.
Count(s, e) == Cardinality({i \in 1..Len(s) : s[i] = e})

\* Same elements with the same multiplicities, in any order.
SameBag(s, t) ==
    /\ Len(s) = Len(t)
    /\ \A i \in 1..Len(s) : Count(s, s[i]) = Count(t, s[i])

(***************************************************************************)
(* Wire payloads of a recipe write                                         *)
(***************************************************************************)
Amounts == (0 - 1)..MaxAmount
CookingTimes == (0 - 1)..MaxCookingTime

PayloadsOver(amounts, times) ==
    [tags : SeqsUpTo(Tag, MaxLen),
     ingredients : SeqsUpTo([id : Ingredient, amount : amounts], MaxLen),
     cooking_time : times]

\* Every payload shape, negative numbers included.
Payloads == PayloadsOver(Amounts, CookingTimes)

\* A well-formed payload.
StockPayload ==
    [tags |-> <<"T1">>,
     ingredients |-> <<[id |-> "I1", amount |-> 1]>>,
     cooking_time |-> 1]

\* The payloads of the write endpoints: every tag list and ingredient list
\* within the bounds, with the cooking time of the stock payload.
RequestPayloads == PayloadsOver(0..MaxAmount, {StockPayload.cooking_time})

\* One payload for each fault the validators name.
FaultyPayloads ==
    {[StockPayload EXCEPT !.ingredients = <<>>],
     [StockPayload EXCEPT !.ingredients =
         <<[id |-> "I1", amount |-> 1], [id |-> "I1", amount |-> 2]>>],
     [StockPayload EXCEPT !.ingredients = <<[id |-> "I1", amount |-> 0]>>],
     [StockPayload EXCEPT !.ingredients = <<[id |-> "I2", amount |-> 0 - 1]>>],
     [StockPayload EXCEPT !.tags = <<>>],
     [StockPayload EXCEPT !.tags = <<"T1", "T1">>],
     [StockPayload EXCEPT !.cooking_time = 0]}

NoData == [kind |-> "none"]

(***************************************************************************)
(* RecipeCreateUpdateSerializer: field validators.  Each returns "" when   *)
(* the value passes and the name of the raised ValidationError otherwise.  *)
(***************************************************************************)
validate_ingredients_any_amount(data) ==
    IF data = <<>> THEN "ingredients_empty"
    ELSE IF Len(data) # Cardinality({data[i].id : i \in 1..Len(data)})
         THEN "ingredients_not_unique"
    ELSE ""

validate_ingredients(data) ==
    IF data = <<>> THEN "ingredients_empty"
    ELSE IF Len(data) # Cardinality({data[i].id : i \in 1..Len(data)})
         THEN "ingredients_not_unique"
    ELSE IF \E i \in 1..Len(data) : data[i].amount <= 0
         THEN "amount_not_positive"
    ELSE ""

validate_tags_allow_repeats(data) ==
    IF data = <<>> THEN "tags_empty" ELSE ""

validate_tags(data) ==
    IF data = <<>> THEN "tags_empty"
    ELSE IF Len(data) # Cardinality(Range(data)) THEN "tags_not_unique"
    ELSE ""

validate_cooking_time(data) ==
    IF data \notin Int THEN "cooking_time_not_integer"
    ELSE IF data <= 0 THEN "cooking_time_not_positive"
    ELSE ""

\* Serializer.run_validation: every declared field is validated and the
\* errors are collected per field.
run_validation(data) ==
    [ingredients |-> validate_ingredients(data.ingredients),
     tags |-> validate_tags(data.tags),
     cooking_time |-> validate_cooking_time(data.cooking_time)]

is_valid(data) ==
    LET errors == run_validation(data)
    IN  errors.ingredients = "" /\ errors.tags = "" /\ errors.cooking_time = ""

\* The payloads that pass validation, and those among them that keep the
\* tags of the stock payload.
ValidRequestPayloads == {d \in RequestPayloads : is_valid(d)}
ValidIngredientPayloads ==
    {d \in ValidRequestPayloads : d.tags = StockPayload.tags}

(***************************************************************************)
(* Storage primitives used by the recipe write path                        *)
(***************************************************************************)
\* Recipe.objects.create(image=image, **validated_data): the scalar fields
\* and the author; the tag set is attached afterwards.
Recipe_objects_create(recipes, author, data) ==
    Append(recipes, [author |-> author, last_editor |-> None,
                     cooking_time |-> data.cooking_time, tags |-> {}])

\* IngredientAmount.objects.create(recipe=, ingredient=, amount=)
IngredientAmount_objects_create(rows, recipe, ingredient, amount) ==
    Append(rows, [recipe |-> recipe, ingredient |-> ingredient,
                  amount |-> amount])

\* recipe.tags.set(tags)
tags_set(recipes, recipe, tags) ==
    [recipes EXCEPT ![recipe].tags = Range(tags)]

\* instance.ingredients.clear(): removes every ingredient-amount row of
\* the recipe.
ingredients_clear(rows, recipe) ==
    SelectSeq(rows, LAMBDA row : row.recipe # recipe)

\* ModelSerializer.update(instance, validated_data): setattr of the
\* remaining scalar fields, then instance.save(), which also stores the
\* last_editor assigned on the instance beforehand.
ModelSerializer_update(recipes, recipe, last_editor, data) ==
    [recipes EXCEPT ![recipe].cooking_time = data.cooking_time,
                    ![recipe].last_editor = last_editor]

add_ingredients_first_only(rows, ingredients, recipe) ==
    IF ingredients = <<>> THEN rows
    ELSE IngredientAmount_objects_create(
             rows, recipe, Head(ingredients).id, Head(ingredients).amount)

RECURSIVE add_ingredients(_, _, _)
add_ingredients(rows, ingredients, recipe) ==
    IF ingredients = <<>> THEN rows
    ELSE add_ingredients(
             IngredientAmount_objects_create(
                 rows, recipe, Head(ingredients).id, Head(ingredients).amount),
             Tail(ingredients), recipe)

\* RecipeCreateUpdateSerializer.create; the result names both tables and
\* the new instance.
create(recipes, rows, author, data) ==
    LET new_recipe == Len(recipes) + 1
        recipes1 == Recipe_objects_create(recipes, author, data)
        rows1 == add_ingredients(rows, data.ingredients, new_recipe)
    IN  [Recipe |-> tags_set(recipes1, new_recipe, data.tags),
         IngredientAmount |-> rows1,
         instance |-> new_recipe]

update_keep_old_rows(recipes, rows, instance, user, data) ==
    LET recipes1 == ModelSerializer_update(recipes, instance, user, data)
        recipes2 == IF data.tags # <<>>
                    THEN tags_set(recipes1, instance, data.tags)
                    ELSE recipes1
        rows1 == IF data.ingredients # <<>>
                 THEN add_ingredients(rows, data.ingredients, instance)
                 ELSE rows
    IN  [Recipe |-> recipes2, IngredientAmount |-> rows1,
         instance |-> instance]

\* RecipeCreateUpdateSerializer.update
update(recipes, rows, instance, user, data) ==
    LET recipes1 == ModelSerializer_update(recipes, instance, user, data)
        recipes2 == IF data.tags # <<>>
                    THEN tags_set(recipes1, instance, data.tags)
                    ELSE recipes1
        rows1 == IF data.ingredients # <<>>
                 THEN add_ingredients(
                          ingredients_clear(rows, instance),
                          data.ingredients, instance)
                 ELSE rows
    IN  [Recipe |-> recipes2, IngredientAmount |-> rows1,
         instance |-> instance]

(***************************************************************************)
(* Read representations                                                    *)
(***************************************************************************)
get_is_subscribed_any_follower(subs, user, obj) ==
    \E i \in 1..Len(subs) : subs[i].author = obj

\* CustomUserSerializer.get_is_subscribed
get_is_subscribed(subs, user, obj) ==
    IF user = AnonymousUser THEN FALSE
    ELSE \E i \in 1..Len(subs) : subs[i].author = obj /\ subs[i].user = user

CustomUserSerializer(subs, user, obj) ==
    [id |-> obj, is_subscribed |-> get_is_subscribed(subs, user, obj)]

\* IngredientAmountShowSerializer: the ingredient's id beside the amount.
IngredientAmountShowSerializer(row) ==
    [id |-> row.ingredient, amount |-> row.amount]

\* RecipeViewSerializer.get_ingredients
get_ingredients(rows, obj) ==
    LET qs == SelectSeq(rows, LAMBDA row : row.recipe = obj)
    IN  [i \in 1..Len(qs) |-> IngredientAmountShowSerializer(qs[i])]

\* RecipeViewSerializer.get_is_favorited
get_is_favorited(favs, user, obj) ==
    IF user = AnonymousUser THEN FALSE
    ELSE \E row \in favs : row.user = user /\ row.recipe = obj

\* RecipeViewSerializer.get_is_in_shopping_cart
get_is_in_shopping_cart(shops, user, obj) ==
    IF user = AnonymousUser THEN FALSE
    ELSE \E row \in shops : row.user = user /\ row.recipe = obj

RecipeViewSerializer(recipes, rows, favs, shops, subs, user, obj) ==
    [id |-> obj,
     tags |-> recipes[obj].tags,
     author |-> CustomUserSerializer(subs, user, recipes[obj].author),
     ingredients |-> get_ingredients(rows, obj),
     is_favorited |-> get_is_favorited(favs, user, obj),
     is_in_shopping_cart |-> get_is_in_shopping_cart(shops, user, obj),
     cooking_time |-> recipes[obj].cooking_time]

\* RecipeCreateUpdateSerializer.to_representation
to_representation(recipes, rows, favs, shops, subs, user, instance) ==
    RecipeViewSerializer(recipes, rows, favs, shops, subs, user, instance)

\* RecipeReadOnlySerializer: the minimal card.
RecipeReadOnlySerializer(recipes, obj) ==
    [id |-> obj, cooking_time |-> recipes[obj].cooking_time]

(***************************************************************************)
(* Requests against the recipe write endpoints, each run to completion     *)
(***************************************************************************)
Writers == {"u1"}

EmptyStorage ==
    /\ Recipe = <<>>
    /\ IngredientAmount = <<>>
    /\ FavouriteList = {}
    /\ ShoppingList = {}
    /\ Subscription = <<>>

Idle ==
    /\ request = [op |-> "none"]
    /\ validated_data = NoData
    /\ response = [status |-> 0, data |-> NoData]
    /\ procs = <<>>

Init == EmptyStorage /\ Idle

Rejected(errors) ==
    /\ validated_data' = NoData
    /\ response' = [status |-> 400, data |-> NoData]
    /\ UNCHANGED storage

\* POST /recipes/: is_valid(), save() -> create(), then the response is
\* rendered by to_representation.
RecipeCreate(user, data) ==
    /\ request' = [op |-> "recipe_create", user |-> user, id |-> 0]
    /\ IF is_valid(data)
       THEN /\ LET done == create(Recipe, IngredientAmount, user, data)
               IN  /\ Recipe' = done.Recipe
                   /\ IngredientAmount' = done.IngredientAmount
                   /\ validated_data' = data
                   /\ response' =
                          [status |-> 201,
                           data |-> to_representation(
                               done.Recipe, done.IngredientAmount,
                               FavouriteList, ShoppingList, Subscription,
                               user, done.instance)]
            /\ UNCHANGED <<FavouriteList, ShoppingList, Subscription>>
       ELSE Rejected(run_validation(data))
    /\ UNCHANGED procs

\* PUT /recipes/{id}/: is_valid(), save() -> update(), then the response
\* is rendered by to_representation.
RecipeUpdate(user, instance, data) ==
    /\ instance \in 1..Len(Recipe)
    /\ request' = [op |-> "recipe_update", user |-> user, id |-> instance]
    /\ IF is_valid(data)
       THEN /\ LET done == update(Recipe, IngredientAmount, instance, user, data)
               IN  /\ Recipe' = done.Recipe
                   /\ IngredientAmount' = done.IngredientAmount
                   /\ validated_data' = data
                   /\ response' =
                          [status |-> 200,
                           data |-> to_representation(
                               done.Recipe, done.IngredientAmount,
                               FavouriteList, ShoppingList, Subscription,
                               user, done.instance)]
            /\ UNCHANGED <<FavouriteList, ShoppingList, Subscription>>
       ELSE Rejected(run_validation(data))
    /\ UNCHANGED procs

(***************************************************************************)
(* Favourites and shopping lists                                           *)
(***************************************************************************)
\* Model.objects.create on a join table holding one row per (user, recipe):
\* a second row for the pair is an integrity error.
JoinTable_objects_create(rows, user, recipe) ==
    IF [user |-> user, recipe |-> recipe] \in rows
    THEN [status |-> 500, rows |-> rows]
    ELSE [status |-> 201, rows |-> rows \cup {[user |-> user, recipe |-> recipe]}]

FavouriteListSerializer_create_insert_first(rows, recipes, user, recipe_id) ==
    LET done == JoinTable_objects_create(rows, user, recipe_id)
    IN  IF recipe_id \notin 1..Len(recipes)
        THEN [status |-> 404, rows |-> done.rows]
        ELSE done

\* FavouriteListSerializer.create, inherited by ShoppingListSerializer:
\* get_object_or_404 on the path parameter, then the insert.
FavouriteListSerializer_create(rows, recipes, user, recipe_id) ==
    IF recipe_id \notin 1..Len(recipes)
    THEN [status |-> 404, rows |-> rows]
    ELSE JoinTable_objects_create(rows, user, recipe_id)

\* FavouriteListSerializer.to_representation
FavouriteListSerializer_to_representation(recipes, recipe) ==
    RecipeReadOnlySerializer(recipes, recipe)

\* POST /recipes/{recipe_id}/favorite/
FavouriteCreate(user, recipe_id) ==
    LET done == FavouriteListSerializer_create(
                    FavouriteList, Recipe, user, recipe_id)
    IN  /\ request' = [op |-> "favourite_create", user |-> user,
                       id |-> recipe_id]
        /\ FavouriteList' = done.rows
        /\ validated_data' = NoData
        /\ response' =
               [status |-> done.status,
                data |-> IF done.status = 201
                         THEN FavouriteListSerializer_to_representation(
                                  Recipe, recipe_id)
                         ELSE NoData]
        /\ UNCHANGED <<Recipe, IngredientAmount, ShoppingList, Subscription,
                       procs>>

\* POST /recipes/{recipe_id}/shopping_cart/: ShoppingListSerializer is
\* FavouriteListSerializer over the ShoppingList table.
ShoppingCreate(user, recipe_id) ==
    LET done == FavouriteListSerializer_create(
                    ShoppingList, Recipe, user, recipe_id)
    IN  /\ request' = [op |-> "shopping_create", user |-> user,
                       id |-> recipe_id]
        /\ ShoppingList' = done.rows
        /\ validated_data' = NoData
        /\ response' =
               [status |-> done.status,
                data |-> IF done.status = 201
                         THEN FavouriteListSerializer_to_representation(
                                  Recipe, recipe_id)
                         ELSE NoData]
        /\ UNCHANGED <<Recipe, IngredientAmount, FavouriteList, Subscription,
                       procs>>

(***************************************************************************)
(* Subscriptions                                                           *)
(***************************************************************************)
UnknownUser == "u9"

validate_allow_repeat(subs, user, author_id) ==
    IF author_id \notin Users THEN [status |-> 404]
    ELSE IF user = author_id THEN [status |-> 400]
    ELSE [status |-> 200, attrs |-> [user |-> user, author |-> author_id]]

\* SubscriptionSerializer.validate with get_user_and_author: the author
\* is fetched with get_object_or_404, then the two checks.
validate(subs, user, author_id) ==
    IF author_id \notin Users THEN [status |-> 404]
    ELSE IF user = author_id THEN [status |-> 400]
    ELSE IF \E i \in 1..Len(subs) :
                subs[i].user = user /\ subs[i].author = author_id
         THEN [status |-> 400]
    ELSE [status |-> 200, attrs |-> [user |-> user, author |-> author_id]]

\* ModelSerializer.create of a Subscription from the validated attrs.
Subscription_objects_create(subs, attrs) ==
    Append(subs, attrs)

\* POST /users/{author_id}/subscribe/: is_valid(), then save().
Subscribe(user, author_id) ==
    LET checked == validate(Subscription, user, author_id)
    IN  /\ request' = [op |-> "subscribe", user |-> user, id |-> author_id]
        /\ validated_data' = NoData
        /\ IF checked.status = 200
           THEN /\ Subscription' =
                       Subscription_objects_create(Subscription, checked.attrs)
                /\ response' = [status |-> 201, data |-> NoData]
           ELSE /\ response' = [status |-> checked.status, data |-> NoData]
                /\ UNCHANGED Subscription
        /\ UNCHANGED <<Recipe, IngredientAmount, FavouriteList, ShoppingList,
                       procs>>

\* Characters of a query-string value.
Chars == {"-", "0", "1", "2", "x"}
Digits == {"0", "1", "2"}

DigitValue(c) == IF c = "0" THEN 0 ELSE IF c = "1" THEN 1 ELSE 2

RECURSIVE DigitsValue(_)
DigitsValue(text) ==
    IF text = <<>> THEN 0
    ELSE 10 * DigitsValue(SubSeq(text, 1, Len(text) - 1))
             + DigitValue(text[Len(text)])

\* Python's int(str): an optional sign, then one or more decimal digits;
\* anything else raises ValueError (ok = FALSE).
int(text) ==
    LET negative == text # <<>> /\ text[1] = "-"
        body == IF negative THEN Tail(text) ELSE text
    IN  IF body # <<>> /\ \A i \in 1..Len(body) : body[i] \in Digits
        THEN [ok |-> TRUE,
              value |-> IF negative THEN 0 - DigitsValue(body)
                        ELSE DigitsValue(body)]
        ELSE [ok |-> FALSE, value |-> 0]

\* query_params.get('recipes_limit'): absent, or the text given.
NoParam == [given |-> FALSE, text |-> <<>>]
QueryParams == {NoParam} \cup [given : {TRUE}, text : SeqsUpTo(Chars, MaxStr)]

\* obj.author.foodgram_recipe_authors.all(): the author's recipes.
foodgram_recipe_authors(recipes, author) ==
    SelectSeq([i \in 1..Len(recipes) |-> i],
              LAMBDA i : recipes[i].author = author)

\* SubscriptionSerializer.get_recipes_count
get_recipes_count(recipes, author) ==
    Len(foodgram_recipe_authors(recipes, author))

\* SubscriptionSerializer.get_recipes.  int(None) raises TypeError and a
\* non-numeric text ValueError: both leave recipes_limit = None.  The slice
\* is taken only when recipes_limit is truthy, and a negative slice bound
\* is refused by the queryset, which ends the request with an error.
get_recipes(recipes, author, param) ==
    LET parsed == IF param.given THEN int(param.text)
                  ELSE [ok |-> FALSE, value |-> 0]
        qs == foodgram_recipe_authors(recipes, author)
        cards(ids) == [i \in 1..Len(ids) |->
                          RecipeReadOnlySerializer(recipes, ids[i])]
    IN  IF parsed.ok /\ parsed.value # 0
        THEN IF parsed.value < 0
             THEN [status |-> 500, recipes |-> <<>>]
             ELSE [status |-> 200,
                   recipes |-> cards(SubSeq(qs, 1,
                       IF parsed.value < Len(qs) THEN parsed.value
                       ELSE Len(qs)))]
        ELSE [status |-> 200, recipes |-> cards(qs)]

\* SubscriptionSerializer.get_is_subscribed
Subscription_get_is_subscribed(subs, obj) ==
    \E i \in 1..Len(subs) :
        subs[i].user = obj.user /\ subs[i].author = obj.author

(***************************************************************************)
(* Read requests                                                           *)
(***************************************************************************)
\* GET /users/subscriptions/?recipes_limit=...: one Subscription row
\* rendered by SubscriptionSerializer.
SubscriptionRead(i, param) ==
    /\ i \in 1..Len(Subscription)
    /\ LET obj == Subscription[i]
           listed == get_recipes(Recipe, obj.author, param)
       IN  /\ request' = [op |-> "subscription_read", user |-> obj.user,
                          id |-> obj.author, recipes_limit |-> param]
           /\ response' =
                  [status |-> listed.status,
                   data |-> [id |-> obj.author,
                             is_subscribed |->
                                 Subscription_get_is_subscribed(Subscription, obj),
                             recipes |-> listed.recipes,
                             recipes_count |->
                                 get_recipes_count(Recipe, obj.author)]]
    /\ validated_data' = NoData
    /\ UNCHANGED <<storage, procs>>

\* GET /users/{id}/ rendered by CustomUserSerializer.
UserRead(viewer, user) ==
    /\ request' = [op |-> "user_read", user |-> viewer, id |-> user]
    /\ validated_data' = NoData
    /\ response' = [status |-> 200,
                    data |-> CustomUserSerializer(Subscription, viewer, user)]
    /\ UNCHANGED <<storage, procs>>

\* GET /recipes/{id}/ rendered by RecipeViewSerializer.
RecipeRead(viewer, recipe) ==
    /\ recipe \in 1..Len(Recipe)
    /\ request' = [op |-> "recipe_read", user |-> viewer, id |-> recipe]
    /\ validated_data' = NoData
    /\ response' =
           [status |-> 200,
            data |-> RecipeViewSerializer(
                Recipe, IngredientAmount, FavouriteList, ShoppingList,
                Subscription, viewer, recipe)]
    /\ UNCHANGED <<storage, procs>>

(***************************************************************************)
(* Specifications                                                          *)
(***************************************************************************)
(***************************************************************************)
(* A recipe write taken one storage operation at a time.  No transaction   *)
(* is opened by create or update, so every storage operation is committed  *)
(* when it returns; a storage operation that raises ends the request with  *)
(* the earlier operations in place.  procs[p] is request p: its position   *)
(* (pc), its validated data, the ingredient entries still to insert        *)
(* (todo) and the storage it started from (before).                        *)
(***************************************************************************)
IdleProc ==
    [op |-> "none", pc |-> "idle", user |-> None, instance |-> 0,
     data |-> StockPayload, todo |-> <<>>, before |-> <<>>]

StockStorage ==
    LET done == create(<<>>, <<>>, "u1", StockPayload)
    IN  /\ Recipe = done.Recipe
        /\ IngredientAmount = done.IngredientAmount
        /\ FavouriteList = {}
        /\ ShoppingList = {}
        /\ Subscription = <<>>

NoRequest ==
    /\ request = [op |-> "none"]
    /\ validated_data = NoData
    /\ response = [status |-> 0, data |-> NoData]

\* create, lines 188-190: the validated data is unpacked.
Begin_create(p, user, data) ==
    /\ procs[p].pc = "idle"
    /\ Len(Recipe) < MaxAuthored
    /\ is_valid(data)
    /\ procs' = [procs EXCEPT ![p] =
           [op |-> "create", pc |-> "recipe", user |-> user, instance |-> 0,
            data |-> data, todo |-> data.ingredients, before |-> storage]]
    /\ UNCHANGED <<storage, request, validated_data, response>>

\* update, lines 197-201: last_editor is set on the instance and the
\* validated data is unpacked.
Begin_update(p, user, instance, data) ==
    /\ procs[p].pc = "idle"
    /\ instance \in 1..Len(Recipe)
    /\ is_valid(data)
    /\ procs' = [procs EXCEPT ![p] =
           [op |-> "update", pc |-> "save", user |-> user,
            instance |-> instance, data |-> data, todo |-> data.ingredients,
            before |-> storage]]
    /\ UNCHANGED <<storage, request, validated_data, response>>

\* create, line 191: Recipe.objects.create
Step_recipe(p) ==
    /\ procs[p].pc = "recipe"
    /\ Recipe' = Recipe_objects_create(Recipe, procs[p].user, procs[p].data)
    /\ procs' = [procs EXCEPT ![p].instance = Len(Recipe) + 1,
                              ![p].pc = "add"]
    /\ UNCHANGED <<IngredientAmount, FavouriteList, ShoppingList,
                   Subscription, request, validated_data, response>>

\* update, line 202: super().update
Step_save(p) ==
    /\ procs[p].pc = "save"
    /\ Recipe' = ModelSerializer_update(Recipe, procs[p].instance,
                                        procs[p].user, procs[p].data)
    /\ procs' = [procs EXCEPT ![p].pc =
           IF procs[p].data.tags # <<>> THEN "tags"
           ELSE IF procs[p].data.ingredients # <<>> THEN "clear"
           ELSE "done"]
    /\ UNCHANGED <<IngredientAmount, FavouriteList, ShoppingList,
                   Subscription, request, validated_data, response>>

\* create, line 193, and update, line 204: tags.set
Step_tags(p) ==
    /\ procs[p].pc = "tags"
    /\ Recipe' = tags_set(Recipe, procs[p].instance, procs[p].data.tags)
    /\ procs' = [procs EXCEPT ![p].pc =
           IF procs[p].op = "update" /\ procs[p].data.ingredients # <<>>
           THEN "clear" ELSE "done"]
    /\ UNCHANGED <<IngredientAmount, FavouriteList, ShoppingList,
                   Subscription, request, validated_data, response>>

\* update, line 206: instance.ingredients.clear()
Step_clear(p) ==
    /\ procs[p].pc = "clear"
    /\ IngredientAmount' = ingredients_clear(IngredientAmount, procs[p].instance)
    /\ procs' = [procs EXCEPT ![p].pc = "add"]
    /\ UNCHANGED <<Recipe, FavouriteList, ShoppingList, Subscription,
                   request, validated_data, response>>

\* add_ingredients, one turn of the loop: one IngredientAmount row.  After
\* the last entry create goes on to tags.set and update returns.
Step_add(p) ==
    /\ procs[p].pc = "add"
    /\ procs[p].todo # <<>>
    /\ IngredientAmount' = IngredientAmount_objects_create(
           IngredientAmount, procs[p].instance,
           Head(procs[p].todo).id, Head(procs[p].todo).amount)
    /\ procs' = [procs EXCEPT ![p].todo = Tail(procs[p].todo),
                              ![p].pc =
           IF Tail(procs[p].todo) # <<>> THEN "add"
           ELSE IF procs[p].op = "create" THEN "tags" ELSE "done"]
    /\ UNCHANGED <<Recipe, FavouriteList, ShoppingList, Subscription,
                   request, validated_data, response>>

\* The storage operation the request is about to run raises: the
\* exception leaves create or update at once and nothing is undone.
Fail(p) ==
    /\ procs[p].pc \in {"recipe", "save", "tags", "clear", "add"}
    /\ procs' = [procs EXCEPT ![p].pc = "failed"]
    /\ UNCHANGED <<storage, request, validated_data, response>>

\* Recipe writes and reads, each request run to completion.
Next ==
    \/ \E user \in Writers,
          data \in ValidIngredientPayloads \cup FaultyPayloads :
           Len(Recipe) < MaxRecipes /\ RecipeCreate(user, data)
    \/ \E user \in Writers, instance \in 1..MaxRecipes,
          data \in ValidIngredientPayloads \cup FaultyPayloads :
           RecipeUpdate(user, instance, data)
    \/ \E viewer \in Viewers, recipe \in 1..MaxRecipes :
           RecipeRead(viewer, recipe)

Spec == Init /\ [][Next]_vars

\* Recipe creation beside favourites and shopping lists.
NextCreate ==
    \/ \E user \in Writers,
          data \in ValidRequestPayloads \cup FaultyPayloads :
           Len(Recipe) < MaxRecipes /\ RecipeCreate(user, data)
    \/ \E user \in Writers, recipe_id \in 1..MaxRecipes :
           FavouriteCreate(user, recipe_id)
    \/ \E user \in Writers, recipe_id \in 1..MaxRecipes :
           ShoppingCreate(user, recipe_id)

SpecCreate == Init /\ [][NextCreate]_vars

\* Users, favourites, shopping lists and subscriptions over stock recipes.
NextSocial ==
    \/ \E user \in Users :
           Len(Recipe) < MaxRecipes /\ RecipeCreate(user, StockPayload)
    \/ \E user \in Users, recipe_id \in 1..(MaxRecipes + 1) :
           FavouriteCreate(user, recipe_id)
    \/ \E user \in Users, recipe_id \in 1..(MaxRecipes + 1) :
           ShoppingCreate(user, recipe_id)
    \/ \E user \in Users, author_id \in Users \cup {UnknownUser} :
           Subscribe(user, author_id)
    \/ \E viewer \in Viewers, user \in Users : UserRead(viewer, user)
    \/ \E viewer \in Viewers, recipe \in 1..MaxRecipes :
           RecipeRead(viewer, recipe)

SpecSocial == Init /\ [][NextSocial]_vars

\* Validation of one payload.
InitValidate ==
    /\ EmptyStorage
    /\ request \in [op : {"validate"}, data : Payloads]
    /\ validated_data = NoData
    /\ response = [status |-> 0, data |-> NoData]
    /\ procs = <<>>

\* serializer.is_valid(): the errors are kept on the serializer.
Validate ==
    /\ response.status = 0
    /\ response' = [status |-> IF is_valid(request.data) THEN 200 ELSE 400,
                    data |-> run_validation(request.data)]
    /\ validated_data' = IF is_valid(request.data) THEN request.data
                         ELSE NoData
    /\ UNCHANGED <<storage, request, procs>>

NextValidate == Validate

SpecValidate == InitValidate /\ [][NextValidate]_vars

\* Subscriptions rendered with a recipes_limit query parameter.
NextLimit ==
    \/ \E user \in Users :
           Len(Recipe) < MaxAuthored /\ RecipeCreate(user, StockPayload)
    \/ \E user \in Users, author_id \in Users : Subscribe(user, author_id)
    \/ \E i \in 1..Cardinality(Users) * Cardinality(Users),
          param \in QueryParams :
           SubscriptionRead(i, param)

SpecLimit == Init /\ [][NextLimit]_vars

\* One recipe write over a stored recipe, where storage operations may
\* raise.
InitFail == StockStorage /\ NoRequest /\ procs = <<IdleProc>>

NextFail ==
    \E p \in {1} :
        \/ \E user \in Writers, data \in ValidRequestPayloads :
               Begin_create(p, user, data)
        \/ \E user \in Writers, instance \in 1..MaxAuthored,
              data \in ValidRequestPayloads :
               Begin_update(p, user, instance, data)
        \/ Step_recipe(p)
        \/ Step_save(p)
        \/ Step_tags(p)
        \/ Step_clear(p)
        \/ Step_add(p)
        \/ Fail(p)

SpecFail == InitFail /\ [][NextFail]_vars

\* Two update requests for the same stored recipe, their storage
\* operations interleaved.
InitRace == StockStorage /\ NoRequest /\ procs = <<IdleProc, IdleProc>>

NextRace ==
    \E p \in {1, 2} :
        \/ \E user \in Writers, data \in ValidRequestPayloads :
               Begin_update(p, user, 1, data)
        \/ Step_save(p)
        \/ Step_tags(p)
        \/ Step_clear(p)
        \/ Step_add(p)

SpecRace == InitRace /\ [][NextRace]_vars

(***************************************************************************)
(* Properties                                                              *)
(***************************************************************************)
AnonymousRender(recipe) ==
    RecipeViewSerializer(Recipe, IngredientAmount, FavouriteList,
                         ShoppingList, Subscription, AnonymousUser, recipe)

\* C1: for an anonymous viewer, whatever Subscription, FavouriteList and
\* ShoppingList rows are stored, a rendered user has is_subscribed = false
\* and a rendered full recipe has is_favorited = false,
\* is_in_shopping_cart = false and is_subscribed = false on its author;
\* this holds of every render the rows allow and of the response of an
\* anonymous read request.
C1_AnonymousFlagsFalse ==
    /\ \A user \in Users :
           ~CustomUserSerializer(Subscription, AnonymousUser, user).is_subscribed
    /\ \A recipe \in 1..Len(Recipe) :
           /\ ~AnonymousRender(recipe).is_favorited
           /\ ~AnonymousRender(recipe).is_in_shopping_cart
           /\ ~AnonymousRender(recipe).author.is_subscribed
    /\ (request.op = "user_read" /\ request.user = AnonymousUser)
           => ~response.data.is_subscribed
    /\ (request.op = "recipe_read" /\ request.user = AnonymousUser)
           => /\ ~response.data.is_favorited
              /\ ~response.data.is_in_shopping_cart
              /\ ~response.data.author.is_subscribed

\* An anonymous read of a recipe that some user has favourited and put in
\* a shopping list, and whose author has a subscriber.
C1_Witness ==
    /\ request.op = "recipe_read"
    /\ request.user = AnonymousUser
    /\ \E row \in FavouriteList : row.recipe = request.id
    /\ \E row \in ShoppingList : row.recipe = request.id
    /\ \E i \in 1..Len(Subscription) :
           Subscription[i].author = Recipe[request.id].author

\* The payload faults named by the claim, stated on the payload itself.
PayloadFault(data) ==
    \/ Len(data.ingredients) = 0
    \/ \E i, j \in 1..Len(data.ingredients) :
           i # j /\ data.ingredients[i].id = data.ingredients[j].id
    \/ \E i \in 1..Len(data.ingredients) : data.ingredients[i].amount <= 0
    \/ Len(data.tags) = 0
    \/ \E i, j \in 1..Len(data.tags) : i # j /\ data.tags[i] = data.tags[j]
    \/ data.cooking_time <= 0

\* C2: recipe write validation rejects a payload whose ingredient list is
\* empty, repeats an ingredient id or holds an amount <= 0, whose tag list
\* is empty or repeats a tag, or whose cooking_time is <= 0; it accepts a
\* payload with one ingredient of amount 1, one tag and a positive
\* cooking_time.
C2_ValidationRejectsFaults ==
    (request.op = "validate" /\ response.status # 0) =>
        /\ PayloadFault(request.data) => response.status = 400
        /\ ( /\ Len(request.data.ingredients) = 1
             /\ request.data.ingredients[1].amount = 1
             /\ Len(request.data.tags) = 1
             /\ request.data.cooking_time > 0 ) => response.status = 200

\* A rejected payload whose only fault is a repeated tag.
C2_Witness ==
    /\ request.op = "validate"
    /\ response.status = 400
    /\ request.data.tags = <<"T1", "T1">>
    /\ request.data.ingredients = <<[id |-> "I1", amount |-> 1]>>
    /\ request.data.cooking_time = 1

\* C3: after a successful update that supplies a validated ingredient
\* list L, the lines rendered for the recipe are exactly the entries of L,
\* one line per entry, and they are all the rows stored for the recipe.
C3_UpdateReplacesIngredients ==
    (request.op = "recipe_update" /\ response.status = 200) =>
        /\ SameBag(response.data.ingredients, validated_data.ingredients)
        /\ get_ingredients(IngredientAmount, request.id)
               = response.data.ingredients

\* An update of recipe 1 to the single line (I2, 1); the recipe held at
\* least one other row before (C9).
C3_Witness ==
    /\ request.op = "recipe_update"
    /\ request.id = 1
    /\ response.status = 200
    /\ validated_data.ingredients = <<[id |-> "I2", amount |-> 1]>>
    /\ response.data.ingredients = <<[id |-> "I2", amount |-> 1]>>

\* C4: after creating a recipe from a validated payload with tags T and
\* ingredients L, the rendered recipe has one line per entry of L with the
\* same id and amount, the tag set T, and is_favorited = false and
\* is_in_shopping_cart = false for the viewer, who holds no favourite or
\* shopping-list row for it.
C4_CreateRoundTrip ==
    (request.op = "recipe_create" /\ response.status = 201) =>
        /\ SameBag(response.data.ingredients, validated_data.ingredients)
        /\ response.data.tags = Range(validated_data.tags)
        /\ (~\E row \in FavouriteList :
                row.user = request.user /\ row.recipe = response.data.id)
               => ~response.data.is_favorited
        /\ (~\E row \in ShoppingList :
                row.user = request.user /\ row.recipe = response.data.id)
               => ~response.data.is_in_shopping_cart

\* A recipe created with two lines and two tags and rendered back.
C4_Witness ==
    /\ request.op = "recipe_create"
    /\ response.status = 201
    /\ Len(validated_data.ingredients) = 2
    /\ Len(response.data.ingredients) = 2
    /\ response.data.ingredients[1].amount = 2
    /\ Cardinality(response.data.tags) = 2

\* C5: subscription validation fails with a validation error when the
\* viewer is the target author and when a row (viewer, target) already
\* exists, leaving storage as it was; so storage never holds a row with
\* user = author nor two rows for one (user, author) pair.
C5_SubscriptionValidation ==
    [][ /\ (request'.op = "subscribe" /\
            ( \/ request'.user = request'.id
              \/ \E i \in 1..Len(Subscription) :
                     /\ Subscription[i].user = request'.user
                     /\ Subscription[i].author = request'.id ))
           => (response'.status = 400 /\ UNCHANGED storage)
        /\ \A i \in 1..Len(Subscription') :
              /\ Subscription'[i].user # Subscription'[i].author
              /\ \A j \in 1..Len(Subscription') :
                     Subscription'[i] = Subscription'[j] => i = j ]_vars

\* A repeated subscription request that was refused.
C5_Witness ==
    /\ request.op = "subscribe"
    /\ response.status = 400
    /\ request.user # request.id
    /\ \E i \in 1..Len(Subscription) :
           /\ Subscription[i].user = request.user
           /\ Subscription[i].author = request.id
    /\ Len(Subscription) = 2

\* C7: a favourite or shopping-list creation whose recipe_id matches no
\* stored recipe fails with not-found and leaves storage as it was.
C7_MissingRecipeNotFound ==
    [][ (request'.op \in {"favourite_create", "shopping_create"} /\
         request'.id \notin 1..Len(Recipe))
           => (response'.status = 404 /\ UNCHANGED storage) ]_vars

\* A refused favourite creation for a missing recipe while other
\* favourite and shopping-list rows are stored.
C7_Witness ==
    /\ request.op = "favourite_create"
    /\ request.id \notin 1..Len(Recipe)
    /\ response.status = 404
    /\ FavouriteList # {}
    /\ ShoppingList # {}

RowsOf(recipe) == SelectSeq(IngredientAmount, LAMBDA row : row.recipe = recipe)

\* C9: over any sequence of validated create and update requests, each run
\* to completion, every stored recipe has at least one ingredient-amount
\* row, no two rows of a recipe name the same ingredient, and every stored
\* amount is a positive integer.
C9_IngredientRowsWellFormed ==
    \A recipe \in 1..Len(Recipe) :
        /\ Len(RowsOf(recipe)) >= 1
        /\ \A i, j \in 1..Len(RowsOf(recipe)) :
               RowsOf(recipe)[i].ingredient = RowsOf(recipe)[j].ingredient
                   => i = j
        /\ \A i \in 1..Len(RowsOf(recipe)) :
               RowsOf(recipe)[i].amount \in Nat \ {0}

\* A recipe updated to two rows.
C9_Witness ==
    /\ request.op = "recipe_update"
    /\ request.id = 1
    /\ response.status = 200
    /\ Len(RowsOf(1)) = 2
    /\ RowsOf(1)[1].amount = 2

FirstN(s, n) ==
    IF n <= 0 THEN <<>> ELSE SubSeq(s, 1, IF n < Len(s) THEN n ELSE Len(s))

AuthoredCards(author) ==
    LET ids == foodgram_recipe_authors(Recipe, author)
    IN  [i \in 1..Len(ids) |-> RecipeReadOnlySerializer(Recipe, ids[i])]

\* C6: in the subscription representation, when recipes_limit is supplied
\* and parses as an integer N, the recipes listing is the first N of the
\* target's authored recipes (all of them if there are fewer), for every
\* integer N; when it is absent or does not parse, the listing holds all
\* of the target's authored recipes.
C6_RecipesLimit ==
    request.op = "subscription_read" =>
        IF request.recipes_limit.given /\ int(request.recipes_limit.text).ok
        THEN /\ response.status = 200
             /\ response.data.recipes =
                    FirstN(AuthoredCards(request.id),
                           int(request.recipes_limit.text).value)
        ELSE /\ response.status = 200
             /\ response.data.recipes = AuthoredCards(request.id)

WriteApplied(proc) ==
    /\ proc.instance \in 1..Len(Recipe)
    /\ Recipe[proc.instance].cooking_time = proc.data.cooking_time
    /\ Recipe[proc.instance].tags = Range(proc.data.tags)
    /\ SameBag(get_ingredients(IngredientAmount, proc.instance),
               proc.data.ingredients)

\* C8: a recipe write is all-or-nothing: when a storage operation fails at
\* any step of the write, storage afterwards holds none of the write's
\* effects; when none fails, it holds all of them (scalars, every
\* ingredient-amount row, the tag set).
C8_WriteAllOrNothing ==
    \A p \in 1..Len(procs) :
        /\ procs[p].pc = "failed" => storage = procs[p].before
        /\ procs[p].pc = "done" => WriteApplied(procs[p])

\* C10: when two updates of the same recipe with validated lists L1 and L2
\* run with their clear and insert steps interleaved, then once both have
\* finished the recipe's rows are exactly L1 or exactly L2, with no two
\* rows for one ingredient.
C10_ConcurrentUpdatesExclusive ==
    (Len(procs) = 2 /\ procs[1].pc = "done" /\ procs[2].pc = "done") =>
        /\ \/ SameBag(get_ingredients(IngredientAmount, 1),
                      procs[1].data.ingredients)
           \/ SameBag(get_ingredients(IngredientAmount, 1),
                      procs[2].data.ingredients)
        /\ \A i, j \in 1..Len(RowsOf(1)) :
               RowsOf(1)[i].ingredient = RowsOf(1)[j].ingredient => i = j

====
